---- MODULE Spec2Model ----
\* Model of src/src/ProcessBuilder.tsx (ProcessBuilderWithHistory): the snapshot
\* history with its cursor, the drop transition on a row, and the persistence of
\* the history under one localStorage key.
\*
\* JavaScript values: a token or any other string is a TLA+ string; null and
\* undefined are the two reserved strings Null and Undefined.  The text carried
\* by a drag (dataTransfer 'text/plain') is a sequence of atoms, each atom being
\* either the separator ":" or a colon-free piece of text.
EXTENDS Integers, Sequences, FiniteSets, TLC

\* ---------------------------------------------------------------- bounds
MaxRows == 2      \* Add Row is offered while the current snapshot has fewer rows
MaxHist == 3      \* a commit is taken while the resulting history fits
MaxDragged == 2   \* the user drags the first MaxDragged functions of ALL_FUNCTIONS

\* ------------------------------------------------------------- JS values
Null == "<null>"
Undefined == "<undefined>"

\* if (v) ...  : null, undefined and '' are falsy
Truthy(v) == v \notin {Null, Undefined, ""}

\* `${v}` : how a template literal prints a value
TemplateStr(v) == IF v = Undefined THEN "undefined" ELSE IF v = Null THEN "null" ELSE v

ALL_FUNCTIONS == <<"map", "filter", "reduce", "compress">>

\* ------------------------------------------------------------- row state
\* SlotState is a JS object: an insertion-ordered list of key/value entries.
SlotSetNew(slots, k, v) == Append(slots, [key |-> k, val |-> v])

\* slots[k]
SlotGet(slots, k) ==
    IF \E i \in 1..Len(slots) : slots[i].key = k
    THEN slots[CHOOSE i \in 1..Len(slots) : slots[i].key = k].val
    ELSE Undefined

\* slots[k] = v  (an existing key keeps its place, a new key goes last)
SlotSet(slots, k, v) ==
    IF \E i \in 1..Len(slots) : slots[i].key = k
    THEN [i \in 1..Len(slots) |-> IF slots[i].key = k THEN [key |-> k, val |-> v] ELSE slots[i]]
    ELSE SlotSetNew(slots, k, v)

\* Object.entries(r.slots) keys, as rendered drop targets
SlotKeys(slots) == {slots[i].key : i \in 1..Len(slots)}

\* variant: the id is numbered by the current number of rows
newIdOfLength(newRowIndex) == "row-" \o ToString(newRowIndex - 1)

\* `row-${n}` and `slot-${n}-${j}`
newId(newRowIndex) == "row-" \o ToString(newRowIndex)
slotId(newRowIndex, j) == "slot-" \o ToString(newRowIndex) \o "-" \o ToString(j)

newSlots(newRowIndex) ==
    << [key |-> slotId(newRowIndex, 1), val |-> Null],
       [key |-> slotId(newRowIndex, 2), val |-> Null],
       [key |-> slotId(newRowIndex, 3), val |-> Null] >>

newRow(newRowIndex) ==
    [rowId |-> newId(newRowIndex), palette |-> ALL_FUNCTIONS,
     slots |-> newSlots(newRowIndex), trash |-> <<>>]

initialRows ==
    << [rowId |-> "row-1", palette |-> ALL_FUNCTIONS,
        slots |-> << [key |-> "slot-1-1", val |-> Null],
                     [key |-> "slot-1-2", val |-> Null],
                     [key |-> "slot-1-3", val |-> Null] >>,
        trash |-> <<>>] >>

\* ------------------------------------------------------------- strings
\* s.startsWith('slot-'), over the texts that occur: the slot keys the program
\* builds are the ones that begin with 'slot-'.
SlotTexts == {slotId(n, j) : n \in 1..(MaxRows + 1), j \in 1..3}
StartsWithSlot(s) == s \in SlotTexts

\* raw.split(':')
RECURSIVE splitFrom(_, _, _)
splitFrom(s, i, cur) ==
    IF i > Len(s) THEN <<cur>>
    ELSE IF s[i] = ":" THEN <<cur>> \o splitFrom(s, i + 1, "")
    ELSE splitFrom(s, i + 1, cur \o s[i])
split(s) == splitFrom(s, 1, "")

\* const [a, b, c, d] = parts : a missing element is undefined
Destructure(parts, i) == IF i <= Len(parts) THEN parts[i] ELSE Undefined

\* variant: container and row id are written in the other order
handleDragStartSwapped(rowId, container, fn) ==
    <<TemplateStr(container), ":", TemplateStr(rowId), ":", ":", TemplateStr(fn)>>

\* handleDragStart: `${rowId}:${container}::${fn}`
handleDragStart(rowId, container, fn) ==
    <<TemplateStr(rowId), ":", TemplateStr(container), ":", ":", TemplateStr(fn)>>

\* variant: nothing is filtered out
filterKeepsAll(arr, fn) == arr

\* array.filter(item => item !== fn)
filter(arr, fn) == SelectSeq(arr, LAMBDA item : item # fn)

\* ------------------------------------------------------------- JSON
\* JSON.stringify: an object property whose value is undefined is omitted, an
\* undefined array element becomes null.
jsonSlots(slots) == SelectSeq(slots, LAMBDA entry : entry.val # Undefined)

jsonArray(arr) == [i \in 1..Len(arr) |-> IF arr[i] = Undefined THEN Null ELSE arr[i]]

jsonRow(r) ==
    [rowId |-> r.rowId, palette |-> jsonArray(r.palette),
     slots |-> jsonSlots(r.slots), trash |-> jsonArray(r.trash)]

jsonRows(rs) == [i \in 1..Len(rs) |-> jsonRow(rs[i])]

\* the value JSON.parse(JSON.stringify(history)) gives back
jsonHistory(h) == [i \in 1..Len(h) |-> jsonRows(h[i])]

\* What localStorage holds under STORAGE_KEY.  kind "history" is a text written
\* by saveHistory; the other kinds are what a first visit or a damaged store
\* can hold.
Absent == [kind |-> "absent", val |-> <<>>]
StoredHistory(h) == [kind |-> "history", val |-> jsonHistory(h)]

InitialStorage ==
    { Absent,
      [kind |-> "empty-string", val |-> <<>>],
      [kind |-> "unparsable", val |-> <<>>],
      [kind |-> "json-null", val |-> <<>>],
      [kind |-> "json-empty-list", val |-> <<>>],
      [kind |-> "json-number", val |-> <<>>],
      [kind |-> "json-object", val |-> <<>>],
      [kind |-> "json-string", val |-> <<>>],
      [kind |-> "json-list-of-numbers", val |-> <<>>] }

\* saveHistory
saveHistory(h) == StoredHistory(h)

\* loadHistory: [] when the item is missing, empty or unparsable, otherwise
\* whatever JSON.parse returns.  The result is described by what the caller
\* looks at: whether reading .length throws, whether .length is truthy, whether
\* the value is a list of snapshots, and the value.
loadHistory(stored) ==
    CASE stored.kind \in {"absent", "empty-string", "unparsable"} ->
            [lengthThrows |-> FALSE, length |-> 0, snapshots |-> TRUE, val |-> <<>>]
      [] stored.kind = "json-null" ->
            [lengthThrows |-> TRUE, length |-> 0, snapshots |-> FALSE, val |-> <<>>]
      [] stored.kind = "json-empty-list" ->
            [lengthThrows |-> FALSE, length |-> 0, snapshots |-> TRUE, val |-> <<>>]
      [] stored.kind \in {"json-number", "json-object"} ->
            [lengthThrows |-> FALSE, length |-> 0, snapshots |-> FALSE, val |-> <<>>]
      [] stored.kind \in {"json-string", "json-list-of-numbers"} ->
            [lengthThrows |-> FALSE, length |-> 1, snapshots |-> FALSE, val |-> <<>>]
      [] OTHER ->
            [lengthThrows |-> FALSE, length |-> Len(stored.val), snapshots |-> TRUE,
             val |-> stored.val]

\* ------------------------------------------------------------- state
VARIABLES
    history,    \* useState: the list of snapshots (1-based here)
    index,      \* useState: the cursor, 0-based as in the source
    storage,    \* localStorage item STORAGE_KEY
    mounted,    \* FALSE once initialisation or the first render has thrown
    lastOp,     \* observer: the last handler that ran and its outcome
    prevRows,   \* observer: the row list shown before the last drop, add-row,
                \*           undo or redo handler ran
    prevIndex,  \* observer: the cursor before the last handler ran
    prevLen     \* observer: the length of the history before the last handler ran

vars == <<history, index, storage, mounted, lastOp, prevRows, prevIndex, prevLen>>

\* const rows = history[index]
rows == history[index + 1]

\* ------------------------------------------------------------- mount
\* useState initialisers, first render and the save effect that follows it.
Mount(stored, h, i, st, m) ==
    LET loaded == loadHistory(stored) IN
    IF loaded.lengthThrows \/ (loaded.length # 0 /\ ~loaded.snapshots)
    THEN /\ m = FALSE /\ h = <<>> /\ i = 0 /\ st = stored
    ELSE LET hist == IF loaded.length # 0 THEN loaded.val ELSE <<initialRows>> IN
         /\ m = TRUE
         /\ h = hist
         /\ i = Len(hist) - 1
         /\ st = saveHistory(hist)

Init ==
    /\ \E stored \in InitialStorage : Mount(stored, history, index, storage, mounted)
    /\ lastOp = "load"
    /\ prevRows = <<>>
    /\ prevIndex = 0
    /\ prevLen = 0

\* ------------------------------------------------------------- history
\* localStorage.removeItem(STORAGE_KEY)
removeItem == Absent

\* variant: the effect stores the last snapshot only
saveEffectLastOnly(left, newHistory) == saveHistory(<<newHistory[Len(newHistory)]>>)

\* useEffect(() => saveHistory(history), [history]): runs after the render
\* that follows a handler when the handler gave history a new value, and
\* writes over whatever the handler itself left in storage.
saveEffect(left, newHistory) == saveHistory(newHistory)

\* apply: truncate to [0, index], append, advance; then the save effect.
\* variant: the redo snapshots are kept
truncatedKeepsAll(prev, i) == prev
truncated(prev, i) == SubSeq(prev, 1, i + 1)

apply(newRows) ==
    /\ index + 2 <= MaxHist
    /\ history' = Append(truncated(history, index), newRows)
    /\ index' = index + 1
    /\ storage' = saveEffect(storage, history')

Observe(op) ==
    /\ lastOp' = op
    /\ prevRows' = rows
    /\ prevIndex' = index
    /\ prevLen' = Len(history)

\* clear starts over: the earlier row list is not kept
ObserveReset(op) ==
    /\ lastOp' = op
    /\ prevRows' = <<>>
    /\ prevIndex' = index
    /\ prevLen' = Len(history)

\* a new mount has nothing earlier
ObserveMount(op) ==
    /\ lastOp' = op
    /\ prevRows' = <<>>
    /\ prevIndex' = 0
    /\ prevLen' = 0

\* disabled={index === 0}
undoDisabled == index = 0

\* variant: redo is disabled only past the last index
redoDisabledPastEnd == index >= Len(history)

\* disabled={index >= history.length - 1}
redoDisabled == index >= Len(history) - 1

\* variant: undo returns to the first snapshot
undoToStart ==
    /\ mounted
    /\ index' = 0
    /\ UNCHANGED <<history, storage, mounted>>
    /\ Observe("undo")

\* variant: undo without its guard
undoUnguarded ==
    /\ mounted
    /\ index' = index - 1
    /\ UNCHANGED <<history, storage, mounted>>
    /\ Observe("undo")

\* variant: undo also drops the last snapshot of the history
undoPops ==
    /\ mounted
    /\ index' = IF index > 0 THEN index - 1 ELSE index
    /\ history' = IF index > 0 THEN SubSeq(history, 1, Len(history) - 1) ELSE history
    /\ storage' = IF index > 0 THEN saveEffect(storage, history') ELSE storage
    /\ UNCHANGED mounted
    /\ Observe("undo")

undo ==
    /\ mounted
    /\ index' = IF index > 0 THEN index - 1 ELSE index
    /\ UNCHANGED <<history, storage, mounted>>
    /\ Observe("undo")

\* variant: redo jumps to the last snapshot
redoToEnd ==
    /\ mounted
    /\ index' = Len(history) - 1
    /\ UNCHANGED <<history, storage, mounted>>
    /\ Observe("redo")

redo ==
    /\ mounted
    /\ index' = IF index < Len(history) - 1 THEN index + 1 ELSE index
    /\ UNCHANGED <<history, storage, mounted>>
    /\ Observe("redo")

\* variant: clearAll without setIndex(0)
clearAllKeepsIndex ==
    /\ mounted
    /\ history' = <<initialRows>>
    /\ index' = index
    /\ storage' = saveEffect(removeItem, history')
    /\ UNCHANGED mounted
    /\ ObserveReset("clear")

\* clearAll: setHistory, setIndex, removeItem; setHistory is given a new array,
\* so the save effect follows.
clearAll ==
    /\ mounted
    /\ history' = <<initialRows>>
    /\ index' = 0
    /\ storage' = saveEffect(removeItem, history')
    /\ UNCHANGED mounted
    /\ ObserveReset("clear")

addRow ==
    /\ mounted
    /\ Len(rows) < MaxRows
    /\ LET newRowIndex == Len(rows) + 1 IN
       apply(Append(rows, newRow(newRowIndex)))
    /\ UNCHANGED mounted
    /\ Observe("addRow")

\* ------------------------------------------------------------- drop
\* variant: a token found in the destination slot is overwritten and not put
\* anywhere
updatedLosesDisplaced(r, srcContainer, fn, dest) ==
    LET removed ==
            IF srcContainer = "palette"
            THEN [r EXCEPT !.palette = filter(@, fn)]
            ELSE IF StartsWithSlot(srcContainer)
            THEN [r EXCEPT !.slots = SlotSet(@, srcContainer, Null)]
            ELSE [r EXCEPT !.trash = filter(@, fn)]
    IN  IF StartsWithSlot(dest)
        THEN [removed EXCEPT !.slots = SlotSet(@, dest, fn)]
        ELSE IF dest = "palette"
        THEN [removed EXCEPT !.palette = Append(@, fn)]
        ELSE [removed EXCEPT !.trash = Append(@, fn)]

\* The body of rows.map for the row being modified.
updated(r, srcContainer, fn, dest) ==
    LET removed ==
            IF srcContainer = "palette"
            THEN [r EXCEPT !.palette = filter(@, fn)]
            ELSE IF StartsWithSlot(srcContainer)
            THEN [r EXCEPT !.slots = SlotSet(@, srcContainer, Null)]
            ELSE [r EXCEPT !.trash = filter(@, fn)]
    IN  IF StartsWithSlot(dest)
        THEN LET existing == SlotGet(removed.slots, dest) IN
             IF Truthy(existing)
             THEN LET placed == [removed EXCEPT !.slots = SlotSet(@, dest, fn)] IN
                  IF StartsWithSlot(srcContainer)
                  THEN [placed EXCEPT !.slots = SlotSet(@, srcContainer, existing)]
                  ELSE IF srcContainer = "palette"
                  THEN [placed EXCEPT !.palette = Append(@, existing)]
                  ELSE [placed EXCEPT !.trash = Append(@, existing)]
             ELSE [removed EXCEPT !.slots = SlotSet(@, dest, fn)]
        ELSE IF dest = "palette"
        THEN [removed EXCEPT !.palette = Append(@, fn)]
        ELSE [removed EXCEPT !.trash = Append(@, fn)]

\* variant: the same-container test is missing
rejectsOtherRowOnly(rowId, srcRow, srcContainer, dest) == rowId # srcRow

\* if (rows[rowIdx].rowId !== srcRow || srcContainer === dest) return;
rejects(rowId, srcRow, srcContainer, dest) == rowId # srcRow \/ srcContainer = dest

\* variant: the body of rows.map is applied to every row
handleDropEveryRow(rs, raw, rowIdx, dest) ==
    LET parts == split(raw)
        srcRow == Destructure(parts, 1)
        srcContainer == Destructure(parts, 2)
        fn == Destructure(parts, 4)
    IN  IF raw = <<>>
        THEN [outcome |-> "ignored-empty", newRows |-> rs]
        ELSE IF rejects(rs[rowIdx].rowId, srcRow, srcContainer, dest)
        THEN [outcome |-> "ignored", newRows |-> rs]
        ELSE IF srcContainer # "palette" /\ srcContainer = Undefined
        THEN [outcome |-> "threw", newRows |-> rs]
        ELSE [outcome |-> "applied",
              newRows |-> [i \in 1..Len(rs) |-> updated(rs[i], srcContainer, fn, dest)]]

\* handleDrop up to its call of apply: which way the handler ends and, when
\* it reaches apply, the row list it passes.
\*   "ignored-empty"  the return of  if (!raw)
\*   "ignored"        the return of  if (rows[rowIdx].rowId !== srcRow || srcContainer === dest)
\*   "threw"          srcContainer.startsWith evaluated on undefined
\*   "applied"        apply(newRows) is called
handleDrop(rs, raw, rowIdx, dest) ==
    LET parts == split(raw)
        srcRow == Destructure(parts, 1)
        srcContainer == Destructure(parts, 2)
        fn == Destructure(parts, 4)
    IN  IF raw = <<>>
        THEN [outcome |-> "ignored-empty", newRows |-> rs]
        ELSE IF rejects(rs[rowIdx].rowId, srcRow, srcContainer, dest)
        THEN [outcome |-> "ignored", newRows |-> rs]
        ELSE IF srcContainer # "palette" /\ srcContainer = Undefined
        THEN [outcome |-> "threw", newRows |-> rs]
        ELSE [outcome |-> "applied",
              newRows |-> [i \in 1..Len(rs) |->
                             IF i # rowIdx THEN rs[i]
                             ELSE updated(rs[i], srcContainer, fn, dest)]]

\* The end of a drop event whose handler ended as res says: apply and the
\* save effect, or nothing.
Dropped(res) ==
    /\ UNCHANGED mounted
    /\ IF res.outcome = "applied"
       THEN /\ apply(res.newRows)
            /\ Observe("drop")
       ELSE /\ UNCHANGED <<history, index, storage>>
            /\ Observe("drop-" \o res.outcome)

\* The drop targets a row renders.
Dests(r) == {"palette", "trash"} \cup SlotKeys(r.slots)

\* variant: the token of a slot is a drag source too
DragPayloadsWithSlots(rs) ==
    UNION { { handleDragStart(rs[src].rowId, "palette", rs[src].palette[k]) :
                k \in 1..Len(rs[src].palette) }
            \cup
            { handleDragStart(rs[src].rowId, "trash", rs[src].trash[k]) :
                k \in 1..Len(rs[src].trash) }
            \cup
            { handleDragStart(rs[src].rowId, rs[src].slots[k].key, rs[src].slots[k].val) :
                k \in { j \in 1..Len(rs[src].slots) : Truthy(rs[src].slots[j].val) } } :
            src \in 1..Len(rs) }

\* The texts drag starts can produce in the row list rs: one per token rendered
\* in a palette or a trash (slot contents are not draggable).
DragPayloads(rs) ==
    UNION { { handleDragStart(rs[src].rowId, "palette", rs[src].palette[k]) :
                k \in 1..Len(rs[src].palette) }
            \cup
            { handleDragStart(rs[src].rowId, "trash", rs[src].trash[k]) :
                k \in 1..Len(rs[src].trash) } : src \in 1..Len(rs) }

\* What handleDrop does with each of the texts on each target of the rows in
\* rowIdxs.
Drops(rs, payloads, rowIdxs) ==
    UNION { { handleDrop(rs, raw, rowIdx, dest) : raw \in payloads, dest \in Dests(rs[rowIdx]) } :
            rowIdx \in rowIdxs }

\* The drags the user makes: of the first MaxDragged functions.
UserDrags(rs) ==
    { raw \in DragPayloads(rs) :
        \E i \in 1..Len(ALL_FUNCTIONS) : i <= MaxDragged /\ raw[6] = ALL_FUNCTIONS[i] }

\* A drag started on a token rendered in a palette or a trash, dropped on a
\* target of any row.
DragAndDrop ==
    /\ mounted
    /\ \E res \in Drops(rows, UserDrags(rows), 1..Len(rows)) : Dropped(res)

\* Text dragged in from elsewhere: dataTransfer 'text/plain' is whatever the
\* drag source put there (another window of the application, any other text).
\* Each text comes with the target of the first row it is dropped on; a drop
\* on a row other than the one named is covered by DragAndDrop.
ForeignDrops ==
    { [raw |-> <<>>, dest |-> "trash"],
      [raw |-> <<"row-1">>, dest |-> "slot-1-1"],
      [raw |-> <<"row-1", ":", "palette">>, dest |-> "slot-1-2"],
      [raw |-> <<"row-1", ":", "palette", ":", ":", "map">>, dest |-> "slot-1-2"],
      [raw |-> <<"row-1", ":", "slot-1-1", ":", ":", "map">>, dest |-> "slot-1-2"],
      [raw |-> <<"row-1", ":", "slot-1-1", ":", ":", "map">>, dest |-> "trash"] }

ForeignPayloads == {d.raw : d \in ForeignDrops}

ForeignDrop ==
    /\ mounted
    /\ \E d \in ForeignDrops :
         /\ d.dest \in Dests(rows[1])
         /\ Dropped(handleDrop(rows, d.raw, 1, d.dest))

\* unmount followed by a new mount: state is rebuilt from localStorage
Remount ==
    /\ mounted
    /\ Mount(storage, history', index', storage', mounted')
    /\ ObserveMount("remount")

UiNext == DragAndDrop \/ addRow \/ undo \/ redo \/ clearAll \/ Remount
Next == UiNext \/ ForeignDrop

\* every input a drop can carry
Spec == Init /\ [][Next]_vars
\* only drags started on rendered tokens
UiSpec == Init /\ [][UiNext]_vars

\* ======================================================================
\* Properties
\* ======================================================================
Tokens == {ALL_FUNCTIONS[i] : i \in 1..Len(ALL_FUNCTIONS)}
Count(arr, t) == Cardinality({i \in 1..Len(arr) : arr[i] = t})
Occupied(slots) == {i \in 1..Len(slots) : Truthy(slots[i].val)}
TokenCount(r, t) ==
    Count(r.palette, t) + Count(r.trash, t)
      + Cardinality({i \in Occupied(r.slots) : r.slots[i].val = t})
Conserved(r) ==
    /\ \A t \in Tokens : TokenCount(r, t) = 1
    /\ Len(r.palette) + Len(r.trash) + Cardinality(Occupied(r.slots)) = Cardinality(Tokens)

AllPayloads(rs) == DragPayloads(rs) \cup ForeignPayloads
Mutations == {"drop", "addRow"}

\* C1: after any sequence of drops, in every row of the current row list the
\* tokens of palette, occupied slots and trash together are map, filter, reduce
\* and compress, each exactly once.
TokenConservation ==
    mounted => \A i \in 1..Len(rows) : Conserved(rows[i])

\* C2: an accepted drop or add-row made with cursor c on history h leaves the
\* history h[0..c] followed by the new snapshot and the cursor on the new last
\* index c+1, so no redo snapshot survives and redo is unavailable.
CommitRule ==
    [][lastOp' \in Mutations =>
         /\ Len(history') = index + 2
         /\ SubSeq(history', 1, index + 1) = SubSeq(history, 1, index + 1)
         /\ index' = index + 1
         /\ index' = Len(history') - 1
         /\ rows' = history'[Len(history')]
         /\ redoDisabled']_vars

\* C2 witness: a drop was committed while redo snapshots existed, and the
\* history now ends at the new snapshot.
CommitAfterUndo ==
    /\ lastOp = "drop"
    /\ prevLen > prevIndex + 1
    /\ Len(history) = prevIndex + 2
    /\ index = prevIndex + 1

\* C3: undo right after an accepted drop or add-row shows the row list that was
\* current before that mutation.
UndoRestores ==
    [][(lastOp \in Mutations /\ lastOp' = "undo") => rows' = prevRows]_vars

\* C3 witness: undo was taken from the last index and changed the row list shown.
UndoneMutation ==
    /\ lastOp = "undo"
    /\ prevLen = prevIndex + 1
    /\ index = prevIndex - 1
    /\ Len(history) = MaxHist
    /\ rows # prevRows

\* C4: redo right after an undo taken with cursor > 0 shows the row list that
\* was current before the undo and puts the cursor back where it was.
RedoRestores ==
    [][(lastOp = "undo" /\ prevIndex > 0 /\ lastOp' = "redo")
          => (rows' = prevRows /\ index' = prevIndex)]_vars

\* C4 witness: redo moved the cursor forward to a snapshot below the last one,
\* so it followed undos.
RedoneUndo ==
    /\ lastOp = "redo"
    /\ index = prevIndex + 1
    /\ index < Len(history) - 1
    /\ rows # prevRows

\* C5: once loaded, the history is non-empty and the cursor is one of its
\* indices.
CursorValid ==
    mounted => (Len(history) >= 1 /\ 0 <= index /\ index <= Len(history) - 1)

\* C5 witness: undo was clicked at cursor 0 of a history of several snapshots.
UndoAtStart ==
    /\ mounted
    /\ lastOp = "undo"
    /\ prevIndex = 0
    /\ index = 0
    /\ Len(history) > 1

\* C6: clear leaves one snapshot, cursor 0, the snapshot being the single row
\* row-1 with map, filter, reduce, compress in the palette, three empty slots
\* and an empty trash; undo and redo are both unavailable.
ClearResets ==
    lastOp = "clear" =>
       /\ Len(history) = 1
       /\ index = 0
       /\ Len(history[1]) = 1
       /\ history[1][1].rowId = "row-1"
       /\ history[1][1].palette = <<"map", "filter", "reduce", "compress">>
       /\ Len(history[1][1].slots) = 3
       /\ SlotKeys(history[1][1].slots) = {"slot-1-1", "slot-1-2", "slot-1-3"}
       /\ \A i \in 1..Len(history[1][1].slots) : history[1][1].slots[i].val = Null
       /\ history[1][1].trash = <<>>
       /\ undoDisabled
       /\ redoDisabled

\* C6 witness: clear was clicked with several snapshots in the history and the
\* cursor off the first one.
ClearedLongHistory ==
    /\ lastOp = "clear"
    /\ prevLen > 1
    /\ prevIndex > 0
    /\ index = 0

\* C7: after clear and the persistence effect it triggers, local storage holds
\* no history under the key.
ClearErasesStorage ==
    lastOp = "clear" => (storage.kind = "absent" \/ storage.val = <<>>)

\* C8: unmounting and mounting again shows the row list that was shown before.
RemountShowsSameRows ==
    [][lastOp' = "remount" => rows' = rows]_vars

\* C9: a drop whose text names another row than the one dropped on, or the
\* container dropped on, ends at the guard; and a drop that ends there leaves
\* history, cursor and stored history as they were.
DropRejected ==
    /\ [](mounted =>
            \A raw \in AllPayloads(rows) \ {<<>>} :
              LET srcRow == Destructure(split(raw), 1)
                  srcContainer == Destructure(split(raw), 2)
              IN  \A rowIdx \in 1..Len(rows) : \A dest \in Dests(rows[rowIdx]) :
                     (rows[rowIdx].rowId # srcRow \/ srcContainer = dest)
                        => handleDrop(rows, raw, rowIdx, dest).outcome = "ignored")
    /\ [][lastOp' = "drop-ignored" => UNCHANGED <<history, index, storage>>]_vars

\* C9 witness: a drop ended at the guard while redo snapshots existed, and
\* they are still there.
RejectedWithRedo ==
    /\ lastOp = "drop-ignored"
    /\ index < Len(history) - 1
    /\ prevIndex = index
    /\ prevLen = Len(history)

\* the form '<rowId>:<container>::<token>'
WellFormed(raw) ==
    LET parts == split(raw) IN
    /\ Len(parts) = 4
    /\ parts[1] # "" /\ parts[2] # "" /\ parts[3] = "" /\ parts[4] # ""

\* C10: a drop whose text is empty or not of the form
\* '<rowId>:<container>::<token>' is ignored: it neither throws nor reaches
\* apply.
MalformedDropIgnored ==
    mounted =>
       \A raw \in AllPayloads(rows) :
          \A rowIdx \in 1..Len(rows) : \A dest \in Dests(rows[rowIdx]) :
             ~WellFormed(raw)
                => handleDrop(rows, raw, rowIdx, dest).outcome \in {"ignored-empty", "ignored"}

\* the snapshot list a first visit starts from, written out
FreshHistory ==
    << << [rowId |-> "row-1",
           palette |-> <<"map", "filter", "reduce", "compress">>,
           slots |-> << [key |-> "slot-1-1", val |-> Null],
                        [key |-> "slot-1-2", val |-> Null],
                        [key |-> "slot-1-3", val |-> Null] >>,
           trash |-> <<>>] >> >>

\* C11: a first mount over an absent or corrupt stored value does not throw and
\* starts from the fresh single-snapshot history with cursor 0, undo and redo
\* both disabled.
LoadFallsBack ==
    lastOp = "load" =>
       /\ mounted
       /\ history = FreshHistory
       /\ index = 0
       /\ undoDisabled
       /\ redoDisabled

\* the two list containers of a row
Lists == {"palette", "trash"}
OtherList(c) == IF c = "palette" THEN "trash" ELSE "palette"
Without(arr, t) == SelectSeq(arr, LAMBDA x : x # t)

\* C12: the drop of a token t rendered in the palette (resp. trash) of a row on
\* a slot of that row holding a token u is accepted and gives the row with t in
\* that slot, the palette (resp. trash) without t and with u appended last, and
\* the other slots and the other list as they were.
DisplacedGoesToSource ==
    mounted =>
      \A rowIdx \in 1..Len(rows) :
        LET r == rows[rowIdx] IN
        \A src \in Lists : \A k \in 1..Len(r[src]) : \A d \in 1..Len(r.slots) :
          LET t == r[src][k]
              u == r.slots[d].val
              res == handleDrop(rows, handleDragStart(r.rowId, src, t), rowIdx, r.slots[d].key)
              n == res.newRows[rowIdx]
          IN  (t \in Tokens /\ u \in Tokens) =>
                /\ res.outcome = "applied"
                /\ n.rowId = r.rowId
                /\ Len(n.slots) = Len(r.slots)
                /\ n.slots[d] = [key |-> r.slots[d].key, val |-> t]
                /\ \A e \in 1..Len(r.slots) : e # d => n.slots[e] = r.slots[e]
                /\ n[src] = Append(Without(r[src], t), u)
                /\ n[OtherList(src)] = r[OtherList(src)]

\* C12 witness: the last drop put a palette token in a slot of row-1 that held
\* another token, which is now the last of the palette.
DisplacedToPalette ==
    /\ lastOp = "drop"
    /\ \E d \in 1..Len(rows[1].slots) :
         /\ prevRows[1].slots[d].val \in Tokens
         /\ rows[1].slots[d].val \in Tokens
         /\ rows[1].slots[d].val # prevRows[1].slots[d].val
         /\ Count(prevRows[1].palette, rows[1].slots[d].val) = 1
         /\ Len(rows[1].palette) = Len(prevRows[1].palette)
         /\ rows[1].palette[Len(rows[1].palette)] = prevRows[1].slots[d].val
    /\ Conserved(rows[1])

\* What handleDrop makes of the text naming slot a of row rowIdx and the token
\* it holds, dropped on slot b of the same row: the two slots exchanged when b
\* holds a token, the token moved to b and a left empty otherwise, and palette,
\* trash and the third slot as they were.
SlotDropExchanges(rowIdx, a, b) ==
    LET r == rows[rowIdx]
        t == r.slots[a].val
        u == r.slots[b].val
        res == handleDrop(rows, handleDragStart(r.rowId, r.slots[a].key, t), rowIdx, r.slots[b].key)
        n == res.newRows[rowIdx]
    IN  /\ res.outcome = "applied"
        /\ Len(n.slots) = Len(r.slots)
        /\ n.slots[b] = [key |-> r.slots[b].key, val |-> t]
        /\ n.slots[a] = [key |-> r.slots[a].key, val |-> IF u \in Tokens THEN u ELSE Null]
        /\ \A e \in 1..Len(r.slots) : e \notin {a, b} => n.slots[e] = r.slots[e]
        /\ n.palette = r.palette
        /\ n.trash = r.trash

\* the part of C13 about the drop handler alone
SlotDropHandled ==
    mounted =>
      \A rowIdx \in 1..Len(rows) :
        \A a \in 1..Len(rows[rowIdx].slots) : \A b \in 1..Len(rows[rowIdx].slots) :
          (a # b /\ rows[rowIdx].slots[a].val \in Tokens
                 /\ rows[rowIdx].slots[b].val \in Tokens \cup {Null})
             => SlotDropExchanges(rowIdx, a, b)

\* C13: functions can be swapped between slots: the token held in a slot can be
\* dragged, and its drop on another slot of the row exchanges the two slots
\* (moves it, when the other slot is empty) and leaves palette, trash and the
\* third slot as they were.
SlotsCanBeSwapped ==
    mounted =>
      \A rowIdx \in 1..Len(rows) :
        \A a \in 1..Len(rows[rowIdx].slots) : \A b \in 1..Len(rows[rowIdx].slots) :
          (a # b /\ rows[rowIdx].slots[a].val \in Tokens
                 /\ rows[rowIdx].slots[b].val \in Tokens \cup {Null})
             => /\ handleDragStart(rows[rowIdx].rowId, rows[rowIdx].slots[a].key,
                                   rows[rowIdx].slots[a].val) \in DragPayloads(rows)
                /\ SlotDropExchanges(rowIdx, a, b)

\* C14: Add Row on a row list of n rows commits a row list of n+1 rows: the
\* n rows as they were, then a row with id row-(n+1), palette map, filter,
\* reduce, compress, the three empty slots slot-(n+1)-1..3 and an empty trash.
AddRowAppends ==
    [][lastOp' = "addRow" =>
         LET n == Len(rows)
             last == rows'[n + 1]
             num == ToString(n + 1)
         IN  /\ Len(rows') = n + 1
             /\ SubSeq(rows', 1, n) = rows
             /\ last.rowId = "row-" \o num
             /\ n = 1 => last.rowId = "row-2"
             /\ last.palette = <<"map", "filter", "reduce", "compress">>
             /\ Len(last.slots) = 3
             /\ \A j \in 1..3 :
                  last.slots[j] = [key |-> "slot-" \o num \o "-" \o ToString(j), val |-> Null]
             /\ n = 1 => SlotKeys(last.slots) = {"slot-2-1", "slot-2-2", "slot-2-3"}
             /\ last.trash = <<>>
             /\ rows' = history'[Len(history')]]_vars

\* C14 witness: Add Row was clicked on a single row that drops had changed, and
\* the row list is now that row followed by row-2.
AddedSecondRow ==
    /\ lastOp = "addRow"
    /\ Len(prevRows) = 1
    /\ prevRows # initialRows
    /\ Len(rows) = 2
    /\ rows[1] = prevRows[1]
    /\ rows[2].rowId = "row-2"

\* C15: an accepted drop names the row it is dropped on and gives a row list
\* of the same length in which every other row is the row it was; committed,
\* the row list that was current is still the snapshot at its index and the rows
\* keep their ids and order.
DropTouchesOneRow ==
    /\ [](mounted =>
            \A raw \in AllPayloads(rows) :
              LET srcRow == Destructure(split(raw), 1) IN
              \A rowIdx \in 1..Len(rows) : \A dest \in Dests(rows[rowIdx]) :
                 LET res == handleDrop(rows, raw, rowIdx, dest) IN
                 res.outcome = "applied" =>
                    /\ rows[rowIdx].rowId = srcRow
                    /\ Len(res.newRows) = Len(rows)
                    /\ \A i \in 1..Len(rows) : i # rowIdx => res.newRows[i] = rows[i])
    /\ [][lastOp' = "drop" =>
            /\ Len(rows') = Len(rows)
            /\ \A i \in 1..Len(rows) : rows'[i].rowId = rows[i].rowId
            /\ \E k \in 1..Len(rows) : \A i \in 1..Len(rows) : i # k => rows'[i] = rows[i]
            /\ history'[index + 1] = rows]_vars

\* C15 witness: with two rows, the last drop changed row-2 and left row-1 as
\* it was, and the row list from before is the snapshot below the cursor.
DroppedInSecondRow ==
    /\ lastOp = "drop"
    /\ Len(rows) = 2
    /\ Len(prevRows) = 2
    /\ rows[2] # prevRows[2]
    /\ rows[1] = prevRows[1]
    /\ history[index] = prevRows

\* C16: an undo or a redo leaves the history (its length and every snapshot)
\* and the stored history exactly as they were.
UndoRedoMoveCursorOnly ==
    [][lastOp' \in {"undo", "redo"} =>
          /\ Len(history') = Len(history)
          /\ \A k \in 1..Len(history) : history'[k] = history[k]
          /\ storage' = storage]_vars

\* C16 witness: a redo moved the cursor onto the last snapshot of a full
\* history, and the stored history is still all of it.
RedoneToLast ==
    /\ lastOp = "redo"
    /\ index = prevIndex + 1
    /\ Len(history) = MaxHist
    /\ prevLen = MaxHist
    /\ index = Len(history) - 1
    /\ Len(storage.val) = MaxHist

\* C17: the undo button is enabled exactly when the cursor is above 0 and the
\* redo button exactly when it is below the last index; both are disabled
\* right after a first load, undo is enabled and redo disabled right after an
\* accepted drop or add-row, redo is enabled right after an undo that moved the
\* cursor; undo and redo move the cursor by one when their button is enabled
\* and leave history and cursor alone when it is disabled.
UndoRedoAvailability ==
    /\ [](mounted =>
            /\ (~undoDisabled) <=> (index > 0)
            /\ (~redoDisabled) <=> (index < Len(history) - 1)
            /\ lastOp = "load" => (undoDisabled /\ redoDisabled)
            /\ lastOp \in Mutations => (~undoDisabled /\ redoDisabled)
            /\ (lastOp = "undo" /\ prevIndex > 0) => ~redoDisabled)
    /\ [][lastOp' = "undo" =>
            /\ undoDisabled => UNCHANGED <<history, index>>
            /\ ~undoDisabled => (index' = index - 1 /\ UNCHANGED history)]_vars
    /\ [][lastOp' = "redo" =>
            /\ redoDisabled => UNCHANGED <<history, index>>
            /\ ~redoDisabled => (index' = index + 1 /\ UNCHANGED history)]_vars

\* C17 witness: redo was invoked on the last index of a history of several
\* snapshots and nothing moved; undo is enabled there and redo is not.
RedoAtLast ==
    /\ mounted
    /\ lastOp = "redo"
    /\ prevIndex = index
    /\ Len(history) > 1
    /\ index = Len(history) - 1
    /\ ~undoDisabled
    /\ redoDisabled

\* every value of the history is one JSON keeps
Representable(h) ==
    \A k \in 1..Len(h) : \A i \in 1..Len(h[k]) :
       /\ \A j \in 1..Len(h[k][i].palette) : h[k][i].palette[j] # Undefined
       /\ \A j \in 1..Len(h[k][i].trash) : h[k][i].trash[j] # Undefined
       /\ \A j \in 1..Len(h[k][i].slots) : h[k][i].slots[j].val # Undefined

\* C18: once the load, drop, add-row or clear and the save effect it triggers
\* are done, local storage holds the serialisation of the whole history: as
\* many snapshots, the k-th being the serialisation of the k-th snapshot, and
\* the very same sequence when every value is one JSON keeps.
PersistenceMirrorsLog ==
    mounted =>
       /\ storage.kind = "history"
       /\ Len(storage.val) = Len(history)
       /\ \A k \in 1..Len(history) : storage.val[k] = jsonRows(history[k])
       /\ Representable(history) => storage.val = history

\* C18 witness: clear was clicked on a history of several snapshots and local
\* storage holds the one-snapshot history again.
PersistedAfterClear ==
    /\ lastOp = "clear"
    /\ prevLen > 1
    /\ storage.kind = "history"
    /\ storage.val = FreshHistory
    /\ history = FreshHistory

\* C19: the drop of a token t rendered in the palette or trash of a row on an
\* empty slot of that row sets the slot to t, and on the other list appends t
\* as its last element; the drop of the token t of a slot on the palette or the
\* trash appends t there and empties the slot. In each case t is gone from its
\* source, the rest of the source keeps its order, and nothing else changes.
PlainDropPlaces ==
    mounted =>
      \A rowIdx \in 1..Len(rows) :
        LET r == rows[rowIdx]
            New(c, t, dest) == handleDrop(rows, handleDragStart(r.rowId, c, t), rowIdx, dest)
        IN
        /\ \A src \in Lists : \A k \in 1..Len(r[src]) :
             LET t == r[src][k] IN
             t \in Tokens =>
               /\ \A d \in 1..Len(r.slots) :
                    ~Truthy(r.slots[d].val) =>
                       LET res == New(src, t, r.slots[d].key)
                           n == res.newRows[rowIdx]
                       IN  /\ res.outcome = "applied"
                           /\ Len(n.slots) = Len(r.slots)
                           /\ n.slots[d] = [key |-> r.slots[d].key, val |-> t]
                           /\ \A e \in 1..Len(r.slots) : e # d => n.slots[e] = r.slots[e]
                           /\ n[src] = Without(r[src], t)
                           /\ n[OtherList(src)] = r[OtherList(src)]
               /\ LET res == New(src, t, OtherList(src))
                      n == res.newRows[rowIdx]
                  IN  /\ res.outcome = "applied"
                      /\ n[OtherList(src)] = Append(r[OtherList(src)], t)
                      /\ n[src] = Without(r[src], t)
                      /\ n.slots = r.slots
        /\ \A a \in 1..Len(r.slots) : \A dest \in Lists :
             LET t == r.slots[a].val
                 res == New(r.slots[a].key, t, dest)
                 n == res.newRows[rowIdx]
             IN  t \in Tokens =>
                   /\ res.outcome = "applied"
                   /\ n[dest] = Append(r[dest], t)
                   /\ n[OtherList(dest)] = r[OtherList(dest)]
                   /\ Len(n.slots) = Len(r.slots)
                   /\ n.slots[a] = [key |-> r.slots[a].key, val |-> Null]
                   /\ \A e \in 1..Len(r.slots) : e # a => n.slots[e] = r.slots[e]

\* C19 witness: from the initial row, map was dropped from the palette on
\* slot-1-1: the palette is filter, reduce, compress and slot-1-1 holds map.
MapPlacedInFirstSlot ==
    /\ lastOp = "drop"
    /\ prevRows = initialRows
    /\ rows[1].palette = <<"filter", "reduce", "compress">>
    /\ rows[1].slots[1] = [key |-> "slot-1-1", val |-> "map"]
    /\ rows[1].slots[2].val = Null
    /\ rows[1].slots[3].val = Null
    /\ rows[1].trash = <<>>

\* C20: for every row id of the row list, every container of that row
\* (palette, trash, each slot key) and every token, the text built at drag
\* start splits on ':' into four parts of which the first is the row id, the
\* second the container, the third empty and the fourth the token.
PayloadRoundTrip ==
    mounted =>
      \A rowIdx \in 1..Len(rows) : \A c \in Dests(rows[rowIdx]) : \A t \in Tokens :
        LET parts == split(handleDragStart(rows[rowIdx].rowId, c, t)) IN
        /\ Len(parts) = 4
        /\ Destructure(parts, 1) = rows[rowIdx].rowId
        /\ Destructure(parts, 2) = c
        /\ Destructure(parts, 3) = ""
        /\ Destructure(parts, 4) = t

\* C20 witness: a token dragged from the palette of row-2 was dropped on its
\* trash, the drop having read row-2, palette and the token back from the text.
DraggedInSecondRow ==
    /\ lastOp = "drop"
    /\ Len(rows) = 2
    /\ rows[2].rowId = "row-2"
    /\ prevRows[2].trash = <<>>
    /\ Len(rows[2].trash) = 1
    /\ rows[2].trash[1] \in Tokens
    /\ Count(prevRows[2].palette, rows[2].trash[1]) = 1
    /\ Count(rows[2].palette, rows[2].trash[1]) = 0

\* C21: in every snapshot of the history, the row at position i has the id
\* row-i and exactly the three slots slot-i-1, slot-i-2, slot-i-3, so that no
\* operation has added, removed or renamed a slot.
RowIdentity ==
    mounted =>
      \A k \in 1..Len(history) : \A i \in 1..Len(history[k]) :
        LET r == history[k][i]
            num == ToString(i)
        IN  /\ r.rowId = "row-" \o num
            /\ Len(r.slots) = 3
            /\ SlotKeys(r.slots) = {"slot-" \o num \o "-" \o ToString(j) : j \in 1..3}
            /\ i = 1 => SlotKeys(r.slots) = {"slot-1-1", "slot-1-2", "slot-1-3"}

====
